---- MODULE Spec2Model ----
\* A model of simfaas' Fission emulation layer (fission.go) and of its HTTP
\* utilities (httputil.go): the RegexpHandler router, the Fission facade with
\* its auto-creation policy, the asynchronous tap, the synchronous run with
\* the custom-response overlay, and the CustomHandler dispatcher.
\*
\* Strings are sequences of tokens.  A token is one character ("/", "?", ":",
\* "-", ".", a digit) or a word of letters that holds none of those
\* characters ("v2", "tapService", "f1").  Substring search, splitting and
\* suffixes are computed on the token sequence.
EXTENDS Integers, Sequences, FiniteSets, TLC

VARIABLES
    routes,     \* RegexpHandler.routes: sequence of [pattern, handler]
    served,     \* the router-level outcome of the last ServeHTTP
    CreateUndefinedFunctions,   \* Fission.CreateUndefinedFunctions
    functions,  \* the Platform's functions: name -> [name, cfg]
    pc,         \* per worker: "idle", "define" (before Platform.Define) or
                \* "call" (before the operation's own Platform.Get / Run)
    cur,        \* per worker: the request it serves and the locals of its handler
    tasks,      \* the goroutines TapService launched: [id, fn, st]
    last,       \* the last exchange that ended: request, response, calls made
    nreq,       \* requests received so far
    defined,    \* every Platform.Define call of this layer so far, in order
    overlapped, \* whether a request ever arrived while another was in progress
    load,       \* "concurrent": NumWorkers workers, the core requests;
                \* "sequential": one worker, every request of the model
    exec        \* a CustomHandler called directly, and its ExecFn call

----------------------------------------------------------------------------
\* Bounds

\* most routes registered by HandleFunc on one RegexpHandler
MaxRoutes == 2
\* most pieces a generated request path is made of
MaxPieces == 3
\* workers serving requests at the same time
NumWorkers == 2
\* most requests received in one run of the concurrent workers
MaxRequests == 2
\* most requests received in one run of the single worker
MaxSequential == 1

----------------------------------------------------------------------------
\* Strings

\* strings.Index on tokens: the first position of tok in s, 0 when absent
IndexOf(s, tok) ==
    IF \E i \in 1..Len(s) : s[i] = tok
    THEN CHOOSE i \in 1..Len(s) : s[i] = tok /\ \A j \in 1..(i - 1) : s[j] # tok
    ELSE 0

\* strings.LastIndex on tokens: the last position of tok in s, 0 when absent
LastIndex(s, tok) ==
    IF \E i \in 1..Len(s) : s[i] = tok
    THEN CHOOSE i \in 1..Len(s) : s[i] = tok /\ \A j \in (i + 1)..Len(s) : s[j] # tok
    ELSE 0

\* strings.Split(s, sep)[0]: s up to its first sep, all of s when it has none
SplitFirst(s, sep) ==
    IF IndexOf(s, sep) = 0 THEN s ELSE SubSeq(s, 1, IndexOf(s, sep) - 1)

\* the concatenations of at most n sequences of the set pieces
RECURSIVE Concats(_, _)
Concats(pieces, n) ==
    IF n = 0 THEN {<<>>}
    ELSE Concats(pieces, n - 1)
         \cup {s \o p : s \in Concats(pieces, n - 1), p \in pieces}

----------------------------------------------------------------------------
\* Regular expressions.  The patterns this repository compiles are a literal,
\* optionally followed by ".*"; a pattern is [lit, any].

Lit(s) == [lit |-> s, any |-> FALSE]
LitAny(s) == [lit |-> s, any |-> TRUE]

\* regexp.Regexp.MatchString: an unanchored match, anywhere in s.  ".*" takes
\* any run of characters other than a newline, the empty run included.
MatchString(pattern, s) ==
    \E i \in 1..(Len(s) + 1) :
        LET e == i + Len(pattern.lit) - 1 IN
        /\ e <= Len(s)
        /\ SubSeq(s, i, e) = pattern.lit
        /\ pattern.any =>
              \E k \in e..Len(s) : \A m \in (e + 1)..k : s[m] # "\n"

PatFunctions == LitAny(<<"/", "v2", "/", "functions", "/">>)
PatTapService == Lit(<<"/", "v2", "/", "tapService">>)
PatGetServiceForFunction == Lit(<<"/", "v2", "/", "getServiceForFunction">>)
PatFissionFunction == LitAny(<<"/", "fission-function", "/">>)

----------------------------------------------------------------------------
\* RegexpHandler

route(pattern, handler) == [pattern |-> pattern, handler |-> handler]

\* Fission.Serve: a fresh RegexpHandler with the four routes, in this order
Serve ==
    << route(PatFunctions, "HandleFunctionsGet"),
       route(PatTapService, "HandleTapService"),
       route(PatGetServiceForFunction, "HandleGetServiceForFunction"),
       route(PatFissionFunction, "HandleFunctionRun") >>

\* the loop of ServeHTTP, from index i down to 1: the index of the route whose
\* handler is invoked, 0 when the loop ends without a match
RECURSIVE ScanFirstRegistered(_, _, _)
ScanFirstRegistered(rs, path, i) ==
    IF i > Len(rs) THEN 0
    ELSE IF MatchString(rs[i].pattern, path) THEN i
    ELSE ScanFirstRegistered(rs, path, i + 1)

RECURSIVE ScanRoutes(_, _, _)
ScanRoutes(rs, path, i) ==
    IF i < 1 THEN 0
    ELSE IF MatchString(rs[i].pattern, path) THEN i
    ELSE ScanRoutes(rs, path, i - 1)

SelectForward(rs, urlPath) == ScanFirstRegistered(rs, SplitFirst(urlPath, "?"), 1)

SelectUntruncated(rs, urlPath) == ScanRoutes(rs, urlPath, Len(rs))

\* RegexpHandler.ServeHTTP up to the call of the handler: the path is cut at
\* its first "?", then the routes are tried from the newest to the oldest
SelectRoute(rs, urlPath) == ScanRoutes(rs, SplitFirst(urlPath, "?"), Len(rs))

\* no request is being dispatched
NoDispatch == [path |-> <<>>, invoked |-> <<>>, notFound |-> FALSE, n |-> 0]

----------------------------------------------------------------------------
\* Function identity

\* getFunctionNameFromUrl: url.Path[strings.LastIndex(url.Path, "/")+1:]
getFunctionNameFromUrl(urlPath) ==
    SubSeq(urlPath, LastIndex(urlPath, "/") + 1, Len(urlPath))

IsDigits(tok) == tok \in {"0", "1", "2", "5", "8080"}
IsWord(tok) == tok \in {"http", "f1", "f2", "baz"}

\* net/url getScheme: [err, scheme, rest].  A letter-led run of letters and
\* digits before the first ":" is the scheme; a ":" in front is an error; any
\* other character first ends the scan without a scheme.
RECURSIVE getScheme(_, _)
getScheme(raw, i) ==
    IF i > Len(raw) THEN [err |-> FALSE, scheme |-> <<>>, rest |-> raw]
    ELSE IF IsWord(raw[i]) THEN getScheme(raw, i + 1)
    ELSE IF IsDigits(raw[i]) THEN
        IF i = 1 THEN [err |-> FALSE, scheme |-> <<>>, rest |-> raw]
        ELSE getScheme(raw, i + 1)
    ELSE IF raw[i] = ":" THEN
        IF i = 1 THEN [err |-> TRUE, scheme |-> <<>>, rest |-> <<>>]
        ELSE [err |-> FALSE, scheme |-> SubSeq(raw, 1, i - 1),
              rest |-> SubSeq(raw, i + 1, Len(raw))]
    ELSE [err |-> FALSE, scheme |-> <<>>, rest |-> raw]

HasPrefix(s, pre) == Len(s) >= Len(pre) /\ SubSeq(s, 1, Len(pre)) = pre

\* net/url validOptionalPort on the part of the host from its last ":" on
validOptionalPort(port) ==
    \/ port = <<>>
    \/ port[1] = ":" /\ \A k \in 2..Len(port) : IsDigits(port[k])

\* net/url Parse, as far as the host is concerned: [err, Host]
urlParse(rawURL) ==
    LET u == SplitFirst(rawURL, "#")
        sch == getScheme(u, 1)
        rest == SplitFirst(sch.rest, "?")
        authEnd == IndexOf(SubSeq(rest, 3, Len(rest)), "/")
        authority == IF authEnd = 0 THEN SubSeq(rest, 3, Len(rest))
                     ELSE SubSeq(rest, 3, authEnd + 1)
        colon == LastIndex(authority, ":")
        port == IF colon = 0 THEN <<>> ELSE SubSeq(authority, colon, Len(authority))
    IN
    IF sch.err THEN [err |-> TRUE, Host |-> <<>>]
    ELSE IF ~HasPrefix(rest, <<"/">>) /\ sch.scheme # <<>>
         THEN [err |-> FALSE, Host |-> <<>>]              \* an opaque URL
    ELSE IF ~HasPrefix(rest, <<"/">>) /\ IndexOf(SplitFirst(rest, "/"), ":") # 0
         THEN [err |-> TRUE, Host |-> <<>>]    \* colon in the first path segment
    ELSE IF (sch.scheme # <<>> \/ ~HasPrefix(rest, <<"/", "/", "/">>))
            /\ HasPrefix(rest, <<"/", "/">>)
         THEN IF validOptionalPort(port)
              THEN [err |-> FALSE, Host |-> authority]
              ELSE [err |-> TRUE, Host |-> <<>>]
    ELSE [err |-> FALSE, Host |-> <<>>]                   \* a path, no authority

\* svc2fn: the host of the parsed service URL, the raw string when it does
\* not parse
svc2fn(svc) ==
    IF urlParse(svc).err THEN svc ELSE urlParse(svc).Host

----------------------------------------------------------------------------
\* Request parsing

\* the first value of key in a list of <<key, value>> pairs, "" when absent:
\* url.Values.Get and http.Header.Get
ValuesGet(pairs, key) ==
    IF \E i \in 1..Len(pairs) : pairs[i][1] = key
    THEN pairs[CHOOSE i \in 1..Len(pairs) :
                 pairs[i][1] = key /\ \A j \in 1..(i - 1) : pairs[j][1] # key][2]
    ELSE <<>>

CUSTOM_FN_HEADER == "X-CustomFn"

useCustomFnAlways(h) == TRUE

\* useCustomFn: h.Get(CUSTOM_FN_HEADER) != ""
useCustomFn(h) == ValuesGet(h, CUSTOM_FN_HEADER) # <<>>

DigitVal(tok) == CASE tok = "0" -> 0 [] tok = "1" -> 1 [] tok = "2" -> 2 [] tok = "5" -> 5

IsDigit(tok) == tok \in {"0", "1", "2", "5"}

RECURSIVE Pow10(_)
Pow10(n) == IF n = 0 THEN 1 ELSE 10 * Pow10(n - 1)

\* the number a run of decimal digits writes
RECURSIVE DigitsValue(_)
DigitsValue(ds) ==
    IF ds = <<>> THEN 0
    ELSE 10 * DigitsValue(SubSeq(ds, 1, Len(ds) - 1)) + DigitVal(ds[Len(ds)])

\* the first nine decimals of a fraction, as a count of nanoseconds
RECURSIVE FracNanos(_, _)
FracNanos(ds, i) ==
    IF i > Len(ds) \/ i > 9 THEN 0
    ELSE DigitVal(ds[i]) * Pow10(9 - i) + FracNanos(ds, i + 1)

\* strconv.ParseFloat(s, 64) on [-]digits[.digits]: [err, neg, sec, nsec, sub],
\* the value being (sec + nsec/10^9 + a rest below 10^-9 when sub) seconds,
\* negated when neg.  Anything else in the inputs of this model is an error.
ParseFloat(s) ==
    LET neg == s # <<>> /\ s[1] = "-"
        body == IF neg THEN SubSeq(s, 2, Len(s)) ELSE s
        dot == IndexOf(body, ".")
        int == IF dot = 0 THEN body ELSE SubSeq(body, 1, dot - 1)
        frac == IF dot = 0 THEN <<>> ELSE SubSeq(body, dot + 1, Len(body))
        wellFormed == /\ \A k \in 1..Len(int) : IsDigit(int[k])
                      /\ \A k \in 1..Len(frac) : IsDigit(frac[k])
                      /\ Len(int) + Len(frac) > 0
    IN
    IF ~wellFormed
    THEN [err |-> TRUE, neg |-> FALSE, sec |-> 0, nsec |-> 0, sub |-> FALSE]
    ELSE [err |-> FALSE, neg |-> neg, sec |-> DigitsValue(int),
          nsec |-> FracNanos(frac, 1),
          sub |-> \E k \in 10..Len(frac) : frac[k] # "0"]

\* the zero value of `var seconds float64`
ZeroSeconds == [err |-> FALSE, neg |-> FALSE, sec |-> 0, nsec |-> 0, sub |-> FALSE]

\* time.Duration(seconds * float64(time.Second)): the conversion to int64
\* nanoseconds drops what is below one nanosecond (towards zero)
ToDuration(seconds) ==
    [neg |-> seconds.neg /\ (seconds.sec # 0 \/ seconds.nsec # 0),
     sec |-> seconds.sec, nsec |-> seconds.nsec]

\* the runtime argument of Fission.Run, a *time.Duration
NilRuntime == [nil |-> TRUE, d |-> ToDuration(ZeroSeconds)]
PtrRuntime(d) == [nil |-> FALSE, d |-> d]

\* the unquoted text of the JSON string literals of this model
JSONStrings ==
    ("\"name\"" :> <<"name">>) @@ ("\"Name\"" :> <<"name">>)
    @@ ("\"other\"" :> <<"other">>)
    @@ ("\"f1\"" :> <<"f1">>) @@ ("\"f2\"" :> <<"f2">>) @@ ("\"\"" :> <<>>)

IsJSONString(tok) == tok \in DOMAIN JSONStrings
IsJSONScalar(tok) == IsJSONString(tok) \/ tok \in {"null", "5"}

\* json.Unmarshal(bs, &ObjectMeta{}): [err, Name].  Documents of this model:
\* null, a scalar, {} and an object of one member.  Keys match the field
\* name "name" whatever their case; a member of another name is skipped.
Unmarshal(bs) ==
    LET ok(name) == [err |-> FALSE, Name |-> name]
        bad == [err |-> TRUE, Name |-> <<>>]
    IN
    IF bs = <<"null">> THEN ok(<<>>)
    ELSE IF bs = <<"{", "}">> THEN ok(<<>>)
    ELSE IF /\ Len(bs) = 5 /\ bs[1] = "{" /\ IsJSONString(bs[2]) /\ bs[3] = ":"
            /\ IsJSONScalar(bs[4]) /\ bs[5] = "}"
    THEN IF JSONStrings[bs[2]] # <<"name">> THEN ok(<<>>)
         ELSE IF IsJSONString(bs[4]) THEN ok(JSONStrings[bs[4]])
         ELSE IF bs[4] = "null" THEN ok(<<>>)
         ELSE bad                      \* a number for a string field
    ELSE bad                           \* not an object, or not JSON at all

----------------------------------------------------------------------------
\* The Platform, as far as this layer calls it

ErrFunctionNotFound == "function not found"
ErrPlatform == "platform: run failed"
ErrDeploy == "platform: deploy failed"

\* the configuration of a function defined outside this layer
PresetConfig == <<"preset">>
\* the runtime a function's own configuration gives
ConfiguredRuntime == [neg |-> FALSE, sec |-> 1, nsec |-> 0]

NilFunction == [name |-> <<>>, cfg |-> <<"nil">>]

\* Platform.Get: (fn, ok)
PlatformGet(fs, fnName) ==
    IF fnName \in DOMAIN fs THEN [ok |-> TRUE, fn |-> fs[fnName]]
    ELSE [ok |-> FALSE, fn |-> NilFunction]

\* Platform.Define: the functions after registering fnName with cfg
PlatformDefine(fs, fnName, cfg) ==
    [n \in DOMAIN fs \cup {fnName} |->
        IF n = fnName THEN [name |-> fnName, cfg |-> cfg] ELSE fs[n]]

NilReport == [nil |-> TRUE, Fn |-> <<>>, Runtime |-> ConfiguredRuntime, Response |-> <<>>]

\* Platform.Run: the (report, err) results it can return.  An unknown function
\* is not found; a known one runs for the override when there is one, for its
\* configured runtime otherwise, or the Platform fails.
PlatformRun(fs, fnName, runtime) ==
    IF fnName \notin DOMAIN fs
    THEN {[err |-> ErrFunctionNotFound, report |-> NilReport]}
    ELSE {[err |-> "",
           report |-> [nil |-> FALSE, Fn |-> fnName,
                       Runtime |-> IF runtime.nil THEN ConfiguredRuntime ELSE runtime.d,
                       Response |-> <<"simulated">>]],
          [err |-> ErrPlatform, report |-> NilReport]}

\* Platform.deploy: the errors it can return ("" is nil)
PlatformDeploy == {"", ErrDeploy}

----------------------------------------------------------------------------
\* The caller-supplied parts of a Fission value

\* Fission.FnFactory: a configuration made from the name alone
FnFactory(fnName) == <<"cfg">> \o fnName

\* CustomHandler.GetFn: the resolver, (key, err)
GetFn(fnName) ==
    IF fnName = <<"f2">> THEN [err |-> "resolver failed", key |-> ""]
    ELSE IF fnName = <<"f1">> THEN [err |-> "", key |-> "k1"]
    ELSE [err |-> "", key |-> "k0"]

\* CustomHandler.Handlers: the keys that have a generator
Handlers == {"k1"}

\* the generator registered under a key, a CustomFn: (bytes, err)
Generator(key, b) ==
    IF b = <<>> THEN [err |-> "generator failed", res |-> <<>>]
    ELSE [err |-> "", res |-> <<"generated", key>> \o b]

ErrNoHandler == "Parsed handler does not exist"

\* CustomHandler.ExecFn: [err, res, log]
ExecFn(fnName, b) ==
    LET r == GetFn(fnName) IN
    IF r.err # ""
    THEN [err |-> r.err, res |-> <<>>, log |-> << <<"GetFn", fnName>> >>]
    ELSE IF r.key \notin Handlers
    THEN [err |-> ErrNoHandler, res |-> <<>>, log |-> << <<"GetFn", fnName>> >>]
    ELSE [err |-> Generator(r.key, b).err, res |-> Generator(r.key, b).res,
          log |-> << <<"GetFn", fnName>>, <<"generator", r.key, b>> >>]

\* a CustomFn of the model, by name, applied to a payload: (bytes, err)
CustomFns == {"stamp", "fail", "partial"}

CallCustomFn(g, b) ==
    CASE g = "fail" -> [err |-> "generator failed", res |-> <<>>]
      [] g = "partial" -> [err |-> "generator stopped", res |-> <<"part">>]
      [] OTHER -> [err |-> "", res |-> <<"generated">> \o b]

ExecFnFirstHandler(c, fnName, b) ==
    LET r == c.GetFn[fnName] IN
    IF r.err # ""
    THEN [err |-> r.err, res |-> <<>>, Handlers |-> c.Handlers,
          log |-> << <<"GetFn", fnName>> >>]
    ELSE IF DOMAIN c.Handlers = {}
    THEN [err |-> ErrNoHandler, res |-> <<>>, Handlers |-> c.Handlers,
          log |-> << <<"GetFn", fnName>> >>]
    ELSE LET k == CHOOSE x \in DOMAIN c.Handlers : TRUE
             out == CallCustomFn(c.Handlers[k], b)
         IN [err |-> out.err, res |-> out.res, Handlers |-> c.Handlers,
             log |-> << <<"GetFn", fnName>>, <<"generator", k, b, c.Handlers[k]>> >>]

\* CustomHandler.ExecFn for any CustomHandler c = [GetFn, Handlers], GetFn a
\* function from names to (key, err) and Handlers a function from keys to
\* CustomFns: [err, res], the calls made, and the registry after the call
ExecFnOf(c, fnName, b) ==
    LET r == c.GetFn[fnName] IN
    IF r.err # ""
    THEN [err |-> r.err, res |-> <<>>, Handlers |-> c.Handlers,
          log |-> << <<"GetFn", fnName>> >>]
    ELSE IF r.key \notin DOMAIN c.Handlers
    THEN [err |-> ErrNoHandler, res |-> <<>>, Handlers |-> c.Handlers,
          log |-> << <<"GetFn", fnName>> >>]
    ELSE LET out == CallCustomFn(c.Handlers[r.key], b)
         IN [err |-> out.err, res |-> out.res, Handlers |-> c.Handlers,
             log |-> << <<"GetFn", fnName>>,
                        <<"generator", r.key, b, c.Handlers[r.key]>> >>]

\* no CustomHandler is under a direct call
NoExec == [c |-> [GetFn |-> <<>>, Handlers |-> <<>>], called |-> FALSE,
           fnName |-> <<>>, b |-> <<>>, before |-> <<>>,
           out |-> [err |-> "", res |-> <<>>, Handlers |-> <<>>, log |-> <<>>]]

----------------------------------------------------------------------------
\* Requests

Request(path, query, header, body, bodyErr) ==
    [path |-> path, query |-> query, header |-> header, body |-> body,
     bodyErr |-> bodyErr]

PathTap == <<"/", "v2", "/", "tapService">>
PathGetSvc == <<"/", "v2", "/", "getServiceForFunction">>
PathRun(name) == <<"/", "fission-function", "/">> \o name

JSONName(lit) == <<"{", "\"name\"", ":", lit, "}">>

SvcURLs ==
    { <<>>,
      <<"http", ":", "/", "/", "f1", "/", "baz">>,
      <<"f1">>,
      <<"/", "/", "f2">>,
      <<":", "f1">>,
      <<"http", ":", "/", "/", "f1", ":", "baz">> }

JSONBodies ==
    { JSONName("\"f1\""), JSONName("\"f2\""), JSONName("5"),
      <<"{", "\"Name\"", ":", "\"f1\"", "}">>,
      <<"{", "\"other\"", ":", "\"f1\"", "}">>,
      <<"{", "}">>, <<"{">>, <<>>, <<"null">>, <<"\"f1\"">> }

Runtime(v) == << <<"runtime", v>> >>
CustomHeader(v) == << <<CUSTOM_FN_HEADER, v>> >>

Queries ==
    { <<>>, Runtime(<<>>), Runtime(<<"2", ".", "5">>), Runtime(<<"abc">>),
      Runtime(<<"0", ".", "0", "0", "0", "0", "0", "0", "0", "0", "0", "5">>),
      Runtime(<<"-", "1">>),
      << <<"other", <<"2">> >> >> }

TapRequests ==
    {Request(PathTap, <<>>, <<>>, u, FALSE) : u \in SvcURLs}
    \cup {Request(PathTap, <<>>, <<>>, <<"f1">>, TRUE)}

GetSvcRequests ==
    {Request(PathGetSvc, <<>>, <<>>, b, FALSE) : b \in JSONBodies}
    \cup {Request(PathGetSvc, <<>>, <<>>, JSONName("\"f1\""), TRUE)}

RunRequests ==
    {Request(PathRun(n), q, <<>>, <<"p1">>, FALSE) :
        n \in {<<"f1">>, <<"f2">>, <<>>}, q \in Queries}
    \cup {Request(PathRun(n), q, CustomHeader(<<"1">>), b, e) :
        n \in {<<"f1">>, <<"f2">>, <<>>},
        q \in {<<>>, Runtime(<<"2", ".", "5">>)},
        b \in {<<>>, <<"p1">>}, e \in BOOLEAN}
    \cup {Request(PathRun(<<"f1">>), <<>>, h, <<"p1">>, FALSE) :
        h \in {CustomHeader(<<>>), << <<"X-Other", <<"1">> >> >>}}

OtherRequests ==
    { Request(<<"/", "v2", "/", "functions", "/", "f1">>, <<>>, <<>>, <<>>, FALSE),
      Request(<<"/", "healthz">>, <<>>, <<>>, <<>>, FALSE),
      Request(PathTap \o PathRun(<<"f1">>), <<>>, <<>>, <<"f1">>, FALSE) }

\* every request of the model
Requests == TapRequests \cup GetSvcRequests \cup RunRequests \cup OtherRequests

\* the requests served while several workers run
CoreRequests ==
    { Request(PathTap, <<>>, <<>>, <<>>, FALSE),
      Request(PathTap, <<>>, <<>>, <<"http", ":", "/", "/", "f1", "/", "baz">>, FALSE),
      Request(PathTap, <<>>, <<>>, <<"f1">>, FALSE),
      Request(PathGetSvc, <<>>, <<>>, JSONName("\"f1\""), FALSE),
      Request(PathRun(<<"f1">>), <<>>, <<>>, <<"p1">>, FALSE),
      Request(PathRun(<<"f2">>), <<>>, CustomHeader(<<"1">>), <<"p1">>, FALSE) }

Workers == IF load = "concurrent" THEN 1..NumWorkers ELSE {1}
Inputs == IF load = "concurrent" THEN CoreRequests ELSE Requests
Limit == IF load = "concurrent" THEN MaxRequests ELSE MaxSequential

----------------------------------------------------------------------------
\* Responses and operation results

Response(status, body) == [status |-> status, body |-> body]
Text(msg) == <<"text", msg>>
NoBody == <<"empty">>

\* what an operation of Fission returns: err ("" is nil), the service name of
\* GetServiceForFunction, the report of Run
Ret(err, svc, report) == [err |-> err, svc |-> svc, report |-> report]
NoRet == Ret("", <<>>, NilReport)

NoRequest == Request(<<>>, <<>>, <<>>, <<>>, FALSE)

NoCall ==
    [id |-> 0, handler |-> "", req |-> NoRequest, fnName |-> <<>>,
     cfg |-> <<"nil">>, runtime |-> NilRuntime, log |-> <<>>, known |-> FALSE]

NoExchange ==
    [id |-> 0, handler |-> "", req |-> NoRequest, fnName |-> <<>>,
     runtime |-> NilRuntime, log |-> <<>>, known |-> FALSE, op |-> FALSE,
     resp |-> Response(0, NoBody), ret |-> NoRet]

\* a handler that ended: its response, whether the Fission operation under the
\* handler was entered (op), what that operation returned, and the calls made
Exchange(c, op, resp, ret, log) ==
    [id |-> c.id, handler |-> c.handler, req |-> c.req, fnName |-> c.fnName,
     runtime |-> c.runtime, log |-> log, known |-> c.known, op |-> op,
     resp |-> resp, ret |-> ret]

----------------------------------------------------------------------------
\* The handlers, up to createIfUndefined

\* what a handler does before its operation reaches createIfUndefined:
\* [done, resp, ret, op, fnName, runtime, log]; done when the handler has
\* answered already
Entered(fnName, runtime, log) ==
    [done |-> FALSE, resp |-> Response(0, NoBody), ret |-> NoRet, op |-> TRUE,
     fnName |-> fnName, runtime |-> runtime, log |-> log]

Answered(resp, op, ret, log) ==
    [done |-> TRUE, resp |-> resp, ret |-> ret, op |-> op,
     fnName |-> <<>>, runtime |-> NilRuntime, log |-> log]

\* HandleGetServiceForFunction, lines 114-127
EnterGetServiceForFunction(req) ==
    IF req.bodyErr
    THEN Answered(Response(400, Text("failed to read function metadata")),
                  FALSE, NoRet, << <<"ReadAll">> >>)
    ELSE IF Unmarshal(req.body).err
    THEN Answered(Response(400, Text("failed to parse function metadata")),
                  FALSE, NoRet, << <<"ReadAll">> >>)
    ELSE Entered(Unmarshal(req.body).Name, NilRuntime, << <<"ReadAll">> >>)

ErrNoURL == "no url provided to tap"

EnterTapServiceNoCheck(req) ==
    IF req.bodyErr
    THEN Answered(Response(400, Text("failed to parse service to tap")),
                  FALSE, NoRet, << <<"ReadAll">> >>)
    ELSE Entered(svc2fn(req.body), NilRuntime, << <<"ReadAll">> >>)

\* HandleTapService, lines 138-146, and TapService, lines 54-57
EnterTapService(req) ==
    IF req.bodyErr
    THEN Answered(Response(400, Text("failed to parse service to tap")),
                  FALSE, NoRet, << <<"ReadAll">> >>)
    ELSE IF Len(req.body) = 0
    THEN Answered(Response(400, Text("failed to parse service to tap")),
                  TRUE, Ret(ErrNoURL, <<>>, NilReport), << <<"ReadAll">> >>)
    ELSE Entered(svc2fn(req.body), NilRuntime, << <<"ReadAll">> >>)

ErrSyntax == "strconv.ParseFloat: invalid syntax"

EnterFunctionRunLenient(req) ==
    LET queryRuntime == ValuesGet(req.query, "runtime")
        seconds == IF Len(queryRuntime) > 0 /\ ~ParseFloat(queryRuntime).err
                   THEN ParseFloat(queryRuntime) ELSE ZeroSeconds
    IN Entered(getFunctionNameFromUrl(req.path), PtrRuntime(ToDuration(seconds)), <<>>)

\* HandleFunctionRun, lines 169-180, and Run, line 77
EnterFunctionRun(req) ==
    LET queryRuntime == ValuesGet(req.query, "runtime")
        seconds == IF Len(queryRuntime) > 0 THEN ParseFloat(queryRuntime)
                   ELSE ZeroSeconds
    IN
    IF seconds.err
    THEN Answered(Response(400, Text(ErrSyntax)), FALSE, NoRet, <<>>)
    ELSE Entered(getFunctionNameFromUrl(req.path),
                 PtrRuntime(ToDuration(seconds)), <<>>)

\* the handler ServeHTTP invokes, by name
EnterHandler(handler, req) ==
    CASE handler = "HandleFunctionsGet" ->
            Answered(Response(200, Text("{}")), FALSE, NoRet, <<>>)
      [] handler = "HandleTapService" -> EnterTapService(req)
      [] handler = "HandleGetServiceForFunction" -> EnterGetServiceForFunction(req)
      [] handler = "HandleFunctionRun" -> EnterFunctionRun(req)
      [] OTHER -> Answered(Response(404, Text("404 page not found")), FALSE, NoRet, <<>>)

createAlways(create, fs, fnName) ==
    IF fnName \notin DOMAIN fs
    THEN [create |-> TRUE, cfg |-> FnFactory(fnName),
          log |-> << <<"Platform.Get", fnName, FALSE>>, <<"FnFactory", fnName>> >>]
    ELSE [create |-> FALSE, cfg |-> <<"nil">>,
          log |-> << <<"Platform.Get", fnName, TRUE>> >>]

createUnchecked(create, fs, fnName) ==
    IF create
    THEN [create |-> TRUE, cfg |-> FnFactory(fnName),
          log |-> << <<"FnFactory", fnName>> >>]
    ELSE [create |-> FALSE, cfg |-> <<"nil">>, log |-> <<>>]

\* createIfUndefined, lines 197-199: whether the function is to be created,
\* with the configuration the factory made for it, and the calls made
createIfUndefined(create, fs, fnName) ==
    IF create
    THEN IF ~PlatformGet(fs, fnName).ok
         THEN [create |-> TRUE, cfg |-> FnFactory(fnName),
               log |-> << <<"Platform.Get", fnName, FALSE>>, <<"FnFactory", fnName>> >>]
         ELSE [create |-> FALSE, cfg |-> <<"nil">>,
               log |-> << <<"Platform.Get", fnName, TRUE>> >>]
    ELSE [create |-> FALSE, cfg |-> <<"nil">>, log |-> <<>>]

----------------------------------------------------------------------------
\* The state machine of the Fission facade behind its router

fvars == <<CreateUndefinedFunctions, functions, pc, cur, tasks, last, nreq,
           defined, overlapped, load, exec>>
vars == <<routes, served, fvars>>

\* the Platform as it may be when serving starts: functions defined by the
\* embedding program, with their name as key
InitialFunctions ==
    { [n \in S |-> [name |-> n, cfg |-> PresetConfig]] :
        S \in IF load = "concurrent" THEN { {}, {<<"f1">>} }
              ELSE { {}, {<<"f1">>}, {<<"f1">>, <<"f2">>},
                     {<<"f1">>, <<"f2">>, <<>>} } }

InitLoad(l) ==
    /\ load = l
    /\ routes = Serve
    /\ served = NoDispatch
    /\ CreateUndefinedFunctions \in BOOLEAN
    /\ functions \in InitialFunctions
    /\ pc = [w \in Workers |-> "idle"]
    /\ cur = [w \in Workers |-> NoCall]
    /\ tasks = {}
    /\ last = NoExchange
    /\ nreq = 0
    /\ defined = <<>>
    /\ overlapped = FALSE
    /\ exec = NoExec

Init == InitLoad("concurrent")
InitHTTP == InitLoad("sequential")

Return(w, x) ==
    /\ last' = x
    /\ pc' = [pc EXCEPT ![w] = "idle"]
    /\ cur' = [cur EXCEPT ![w] = NoCall]

\* RegexpHandler.ServeHTTP on the routes of Fission.Serve, and the invoked
\* handler up to the first Platform call of createIfUndefined
ServeHTTP(w, req) ==
    /\ pc[w] = "idle"
    /\ \A v \in Workers : v < w => pc[v] # "idle"   \* any idle worker: the first
    /\ nreq < Limit
    /\ LET i == SelectRoute(routes, req.path)
           handler == IF i = 0 THEN "NotFound" ELSE routes[i].handler
           e == EnterHandler(handler, req)
           ci == createIfUndefined(CreateUndefinedFunctions, functions, e.fnName)
           c == [id |-> nreq + 1, handler |-> handler, req |-> req,
                 fnName |-> e.fnName, cfg |-> ci.cfg, runtime |-> e.runtime,
                 log |-> e.log \o ci.log,
                 known |-> e.fnName \in DOMAIN functions]
       IN
       IF e.done
       THEN /\ last' = Exchange(c, e.op, e.resp, e.ret, e.log)
            /\ UNCHANGED <<pc, cur>>
       ELSE /\ cur' = [cur EXCEPT ![w] = c]
            /\ pc' = [pc EXCEPT ![w] = IF ci.create THEN "define" ELSE "call"]
            /\ UNCHANGED last
    /\ nreq' = nreq + 1
    /\ overlapped' = (overlapped \/ \E v \in Workers \ {w} : pc[v] # "idle")
    /\ UNCHANGED <<routes, served, CreateUndefinedFunctions, functions, tasks,
                   defined, load, exec>>

DefineExclusive(w) ==
    /\ pc[w] = "define"
    /\ IF cur[w].fnName \in DOMAIN functions
       THEN UNCHANGED <<functions, defined, cur>>
       ELSE /\ functions' = PlatformDefine(functions, cur[w].fnName, cur[w].cfg)
            /\ defined' = Append(defined, [id |-> cur[w].id, fn |-> cur[w].fnName,
                                           cfg |-> cur[w].cfg])
            /\ cur' = [cur EXCEPT ![w].log =
                          Append(@, <<"Platform.Define", cur[w].fnName, cur[w].cfg>>)]
    /\ pc' = [pc EXCEPT ![w] = "call"]
    /\ UNCHANGED <<routes, served, CreateUndefinedFunctions, tasks, last, nreq,
                   overlapped, load, exec>>

\* createIfUndefined, line 200: f.Platform.Define(fnName, fnCfg)
Define(w) ==
    /\ pc[w] = "define"
    /\ functions' = PlatformDefine(functions, cur[w].fnName, cur[w].cfg)
    /\ defined' = Append(defined, [id |-> cur[w].id, fn |-> cur[w].fnName,
                                   cfg |-> cur[w].cfg])
    /\ cur' = [cur EXCEPT ![w].log =
                  Append(@, <<"Platform.Define", cur[w].fnName, cur[w].cfg>>)]
    /\ pc' = [pc EXCEPT ![w] = "call"]
    /\ UNCHANGED <<routes, served, CreateUndefinedFunctions, tasks, last, nreq,
                   overlapped, load, exec>>

GetServiceForFunctionRetService(g) ==
    IF ~g.ok THEN Ret(ErrFunctionNotFound, <<>>, NilReport)
    ELSE Ret("", <<"svc", "-">> \o g.fn.name, NilReport)

\* GetServiceForFunction, lines 42-46: what it returns for the result of Get
GetServiceForFunctionRet(g) ==
    IF ~g.ok THEN Ret(ErrFunctionNotFound, <<>>, NilReport)
    ELSE Ret("", g.fn.name, NilReport)

\* HandleGetServiceForFunction, lines 128-133
GetServiceForFunctionResponse(ret) ==
    IF ret.err # "" THEN Response(404, Text(ret.err))
    ELSE Response(200, <<"bytes", ret.svc>>)

\* GetServiceForFunction from its Platform.Get on, and the handler's answer
GetServiceForFunctionCall(w) ==
    /\ pc[w] = "call"
    /\ cur[w].handler = "HandleGetServiceForFunction"
    /\ LET c == cur[w]
           g == PlatformGet(functions, c.fnName)
           ret == GetServiceForFunctionRet(g)
       IN Return(w, Exchange(c, TRUE, GetServiceForFunctionResponse(ret), ret,
                             Append(c.log, <<"Platform.Get", c.fnName, g.ok>>)))
    /\ UNCHANGED <<routes, served, CreateUndefinedFunctions, functions, tasks,
                   nreq, defined, overlapped, load, exec>>

goDeployInline(id, fn) == { [id |-> id, fn |-> fn, st |-> "running"] }

goDeployShared(id, fn) ==
    IF \E t \in tasks : t.fn = fn
    THEN { CHOOSE t \in tasks : t.fn = fn }
    ELSE { [id |-> id, fn |-> fn, st |-> "launched"] }

\* TapService, lines 66-68: the goroutine the go statement launches; its body
\* has not started when the statement is over
goDeploy(id, fn) == { [id |-> id, fn |-> fn, st |-> "launched"] }

\* TapService, lines 60-69: what it returns for the result of Get
TapServiceRet(g) ==
    IF ~g.ok THEN Ret(ErrFunctionNotFound, <<>>, NilReport)
    ELSE Ret("", <<>>, NilReport)

\* HandleTapService, lines 147-153
TapServiceResponse(ret) ==
    IF ret.err # "" THEN Response(400, Text("failed to parse service to tap"))
    ELSE Response(200, NoBody)

\* TapService from its Platform.Get on, and the handler's answer
TapServiceCall(w) ==
    /\ pc[w] = "call"
    /\ cur[w].handler = "HandleTapService"
    /\ LET c == cur[w]
           g == PlatformGet(functions, c.fnName)
           ret == TapServiceRet(g)
           log == Append(c.log, <<"Platform.Get", c.fnName, g.ok>>)
       IN
       IF ret.err # ""
       THEN /\ Return(w, Exchange(c, TRUE, TapServiceResponse(ret), ret, log))
            /\ UNCHANGED tasks
       ELSE /\ \E t \in goDeploy(c.id, g.fn.name) : tasks' = tasks \cup {t}
            /\ Return(w, Exchange(c, TRUE, TapServiceResponse(ret), ret,
                                  Append(log, <<"go", g.fn.name>>)))
    /\ UNCHANGED <<routes, served, CreateUndefinedFunctions, functions, nreq,
                   defined, overlapped, load, exec>>

ErrRead == "read failed"

RunTailKeepReport(req, fnName, r) ==
    LET called == << <<"Platform.Run", fnName, r.runtime, r.err, r.report>> >>
        x == ExecFn(fnName, req.body)
    IN
    IF r.err # "" THEN [ret |-> Ret(r.err, <<>>, NilReport), log |-> called]
    ELSE IF useCustomFn(req.header)
    THEN IF req.bodyErr
         THEN [ret |-> Ret(ErrRead, <<>>, NilReport),
               log |-> Append(called, <<"ReadAll">>)]
         ELSE IF x.err # ""
         THEN [ret |-> Ret("", <<>>, r.report),
               log |-> Append(called, <<"ReadAll">>) \o x.log]
         ELSE [ret |-> Ret("", <<>>, [r.report EXCEPT !.Response = x.res]),
               log |-> Append(called, <<"ReadAll">>) \o x.log]
    ELSE [ret |-> Ret("", <<>>, r.report), log |-> called]

RunTailNoOverlay(req, fnName, r) ==
    LET called == << <<"Platform.Run", fnName, r.runtime, r.err, r.report>> >>
        x == ExecFn(fnName, req.body)
    IN
    IF r.err # "" THEN [ret |-> Ret(r.err, <<>>, NilReport), log |-> called]
    ELSE IF useCustomFn(req.header)
    THEN IF req.bodyErr
         THEN [ret |-> Ret(ErrRead, <<>>, NilReport),
               log |-> Append(called, <<"ReadAll">>)]
         ELSE IF x.err # ""
         THEN [ret |-> Ret(x.err, <<>>, NilReport),
               log |-> Append(called, <<"ReadAll">>) \o x.log]
         ELSE [ret |-> Ret("", <<>>, r.report),
               log |-> Append(called, <<"ReadAll">>) \o x.log]
    ELSE [ret |-> Ret("", <<>>, r.report), log |-> called]

RunTailCustomFirst(req, fnName, r) ==
    LET called == << <<"Platform.Run", fnName, r.runtime, r.err, r.report>> >>
        x == ExecFn(fnName, req.body)
        pre == IF useCustomFn(req.header)
               THEN IF req.bodyErr THEN << <<"ReadAll">> >>
                    ELSE << <<"ReadAll">> >> \o x.log
               ELSE <<>>
    IN
    IF useCustomFn(req.header) /\ req.bodyErr
    THEN [ret |-> Ret(ErrRead, <<>>, NilReport), log |-> pre]
    ELSE IF useCustomFn(req.header) /\ x.err # ""
    THEN [ret |-> Ret(x.err, <<>>, NilReport), log |-> pre]
    ELSE IF r.err # ""
    THEN [ret |-> Ret(r.err, <<>>, NilReport), log |-> pre \o called]
    ELSE IF useCustomFn(req.header)
    THEN [ret |-> Ret("", <<>>, [r.report EXCEPT !.Response = x.res]),
          log |-> pre \o called]
    ELSE [ret |-> Ret("", <<>>, r.report), log |-> called]

\* Run, lines 80-99, for the result r = [report, err, runtime] of Platform.Run:
\* what Run returns and the calls it makes
RunTail(req, fnName, r) ==
    LET called == << <<"Platform.Run", fnName, r.runtime, r.err, r.report>> >>
        x == ExecFn(fnName, req.body)
    IN
    IF r.err # "" THEN [ret |-> Ret(r.err, <<>>, NilReport), log |-> called]
    ELSE IF useCustomFn(req.header)
    THEN IF req.bodyErr
         THEN [ret |-> Ret(ErrRead, <<>>, NilReport),
               log |-> Append(called, <<"ReadAll">>)]
         ELSE IF x.err # ""
         THEN [ret |-> Ret(x.err, <<>>, NilReport),
               log |-> Append(called, <<"ReadAll">>) \o x.log]
         ELSE [ret |-> Ret("", <<>>, [r.report EXCEPT !.Response = x.res]),
               log |-> Append(called, <<"ReadAll">>) \o x.log]
    ELSE [ret |-> Ret("", <<>>, r.report), log |-> called]

ErrMarshal == "json: unsupported value"

FunctionRunResponseBackend(ret, marshalErr) ==
    IF ret.err # "" THEN Response(502, Text(ret.err))
    ELSE IF marshalErr THEN Response(500, Text(ErrMarshal))
    ELSE Response(200, <<"json", ret.report>>)

\* HandleFunctionRun, lines 181-192
FunctionRunResponse(ret, marshalErr) ==
    IF ret.err # "" THEN Response(400, Text(ret.err))
    ELSE IF marshalErr THEN Response(500, Text(ErrMarshal))
    ELSE Response(200, <<"json", ret.report>>)

\* Run from its Platform.Run on, and the handler's answer
RunCall(w) ==
    /\ pc[w] = "call"
    /\ cur[w].handler = "HandleFunctionRun"
    /\ \E r \in PlatformRun(functions, cur[w].fnName, cur[w].runtime),
          marshalErr \in BOOLEAN :
          LET c == cur[w]
              t == RunTail(c.req, c.fnName,
                           [err |-> r.err, report |-> r.report, runtime |-> c.runtime])
          IN Return(w, Exchange(c, TRUE, FunctionRunResponse(t.ret, marshalErr),
                                t.ret, c.log \o t.log))
    /\ UNCHANGED <<routes, served, CreateUndefinedFunctions, functions, tasks,
                   nreq, defined, overlapped, load, exec>>

DeployStartWhileServing(t) ==
    /\ t \in tasks
    /\ t.st = "launched"
    /\ \E w \in Workers : pc[w] # "idle"
    /\ tasks' = (tasks \ {t}) \cup {[t EXCEPT !.st = "running"]}
    /\ UNCHANGED <<routes, served, CreateUndefinedFunctions, functions, pc, cur,
                   last, nreq, defined, overlapped, load, exec>>

\* the goroutine of TapService starts: it calls Platform.deploy(fn)
DeployStart(t) ==
    /\ t \in tasks
    /\ t.st = "launched"
    /\ tasks' = (tasks \ {t}) \cup {[t EXCEPT !.st = "running"]}
    /\ UNCHANGED <<routes, served, CreateUndefinedFunctions, functions, pc, cur,
                   last, nreq, defined, overlapped, load, exec>>

\* Platform.deploy returns err; the goroutine drops it and ends
DeployReturn(t, err) ==
    /\ t \in tasks
    /\ t.st = "running"
    /\ tasks' = tasks \ {t}
    /\ UNCHANGED <<routes, served, CreateUndefinedFunctions, functions, pc, cur,
                   last, nreq, defined, overlapped, load, exec>>

Next ==
    \/ \E w \in Workers, req \in Inputs : ServeHTTP(w, req)
    \/ \E w \in Workers : Define(w)
    \/ \E w \in Workers : GetServiceForFunctionCall(w)
    \/ \E w \in Workers : TapServiceCall(w)
    \/ \E w \in Workers : RunCall(w)
    \/ \E t \in tasks : DeployStart(t)
    \/ \E t \in tasks, err \in PlatformDeploy : DeployReturn(t, err)

\* NumWorkers workers serve the core requests concurrently
Spec == Init /\ [][Next]_vars

\* the goroutine of request id, once launched, is scheduled
DeployScheduled(id) == \E t \in tasks : t.id = id /\ DeployStart(t)

\* the concurrent load with every launched goroutine eventually scheduled, as
\* the Go scheduler does
SpecLive ==
    /\ Init
    /\ [][Next]_vars
    /\ \A id \in 1..MaxRequests : WF_vars(DeployScheduled(id))

\* one worker serves every request of the model, one after the other
SpecHTTP == InitHTTP /\ [][Next]_vars

----------------------------------------------------------------------------
\* Inputs of the router

RouterPatterns == { PatTapService, PatFissionFunction, Lit(<<"/">>), LitAny(<<>>) }

PathPieces ==
    { PatFunctions.lit, PatTapService.lit, PatGetServiceForFunction.lit,
      PatFissionFunction.lit, <<"f1">>, <<"?">> }

\* the opaque handler registered with the i-th route
HandlerAt(i) == "handler" \o ToString(i)

RouterPaths == Concats(PathPieces, MaxPieces)

----------------------------------------------------------------------------
\* The router alone: routes are registered, requests are dispatched to opaque
\* handlers, and `served` records which handlers ServeHTTP invoked.

\* the facade is not serving
FissionIdle ==
    /\ load = "router"
    /\ exec = NoExec
    /\ CreateUndefinedFunctions = FALSE
    /\ functions = <<>>
    /\ pc = <<"idle">>
    /\ cur = <<NoCall>>
    /\ tasks = {}
    /\ last = NoExchange
    /\ nreq = 0
    /\ defined = <<>>
    /\ overlapped = FALSE

RouterInit ==
    /\ routes = <<>>
    /\ served = NoDispatch
    /\ FissionIdle

\* RegexpHandler.HandleFunc (and Handler): append a route
HandleFunc(pattern, handler) ==
    /\ Len(routes) < MaxRoutes
    /\ served = NoDispatch
    /\ routes' = Append(routes, route(pattern, handler))
    /\ served' = NoDispatch
    /\ UNCHANGED fvars

\* Fission.Serve builds the handler with the four routes
BuildServe ==
    /\ routes # Serve
    /\ served = NoDispatch
    /\ routes' = Serve
    /\ served' = NoDispatch
    /\ UNCHANGED fvars

\* RegexpHandler.ServeHTTP with opaque handlers, one request at a time
RouterServeHTTP(urlPath) ==
    LET i == SelectRoute(routes, urlPath) IN
    /\ served = NoDispatch
    /\ served' = [ path |-> urlPath,
                   invoked |-> IF i = 0 THEN <<>>
                               ELSE << [index |-> i, handler |-> routes[i].handler] >>,
                   notFound |-> (i = 0),
                   n |-> Len(routes) ]
    /\ UNCHANGED <<routes, fvars>>

\* the invoked handler (or http.NotFound) returns: the request is over
RouterReturn ==
    /\ served # NoDispatch
    /\ served' = NoDispatch
    /\ UNCHANGED <<routes, fvars>>

RouterNext ==
    \/ \E p \in RouterPatterns : HandleFunc(p, HandlerAt(Len(routes) + 1))
    \/ BuildServe
    \/ \E x \in RouterPaths : RouterServeHTTP(x)
    \/ RouterReturn

SpecRouter == RouterInit /\ [][RouterNext]_vars

----------------------------------------------------------------------------
\* A CustomHandler alone: any resolver and any registry, called directly

ExecNames == { <<"f1">>, <<"f2">> }
ExecKeys == { "k0", "k1" }
ExecPayloads == { <<>>, <<"p1">> }

\* the resolvers: for each name a key, an error, or both
Resolvers ==
    [ExecNames -> {[err |-> e, key |-> k] :
                      e \in {"", "resolver failed"}, k \in ExecKeys}]

\* the registries: some of the keys, each with a CustomFn
Registries == UNION { [D -> CustomFns] : D \in SUBSET ExecKeys }

ExecInit ==
    /\ routes = <<>>
    /\ served = NoDispatch
    /\ load = "exec"
    /\ CreateUndefinedFunctions = FALSE
    /\ functions = <<>>
    /\ pc = <<"idle">>
    /\ cur = <<NoCall>>
    /\ tasks = {}
    /\ last = NoExchange
    /\ nreq = 0
    /\ defined = <<>>
    /\ overlapped = FALSE
    /\ exec \in { [NoExec EXCEPT !.c = [GetFn |-> g, Handlers |-> h]] :
                    g \in Resolvers, h \in Registries }

\* c.ExecFn(fnName, b) is called
ExecFnCall(fnName, b) ==
    /\ ~exec.called
    /\ LET out == ExecFnOf(exec.c, fnName, b) IN
       exec' = [c |-> [exec.c EXCEPT !.Handlers = out.Handlers],
                called |-> TRUE, fnName |-> fnName, b |-> b,
                before |-> exec.c, out |-> out]
    /\ UNCHANGED <<routes, served, CreateUndefinedFunctions, functions, pc, cur,
                   tasks, last, nreq, defined, overlapped, load>>

\* the caller takes the result
ExecFnReturn ==
    /\ exec.called
    /\ exec' = [NoExec EXCEPT !.c = exec.c]
    /\ UNCHANGED <<routes, served, CreateUndefinedFunctions, functions, pc, cur,
                   tasks, last, nreq, defined, overlapped, load>>

ExecNext ==
    \/ \E n \in ExecNames, b \in ExecPayloads : ExecFnCall(n, b)
    \/ ExecFnReturn

SpecExec == ExecInit /\ [][ExecNext]_vars

----------------------------------------------------------------------------
\* Claims about the router

\* the routes whose pattern matches the request path (cut at its first "?")
Matching(rs, urlPath) ==
    {i \in 1..Len(rs) : MatchString(rs[i].pattern, SplitFirst(urlPath, "?"))}

Newest(S) == CHOOSE i \in S : \A j \in S : j <= i

\* the handler the precedence of the four Fission routes gives a path
FissionPrecedence(x) ==
    IF MatchString(PatFissionFunction, x) THEN "HandleFunctionRun"
    ELSE IF MatchString(PatGetServiceForFunction, x) THEN "HandleGetServiceForFunction"
    ELSE IF MatchString(PatTapService, x) THEN "HandleTapService"
    ELSE IF MatchString(PatFunctions, x) THEN "HandleFunctionsGet"
    ELSE "NotFound"

\* C1: ServeHTTP invokes exactly one handler, that of the matching route with
\* the highest registration index, and no other (no handler at all, and the
\* not-found response, when no route matches); with the four routes of
\* Fission.Serve the precedence is /fission-function/.* over
\* /v2/getServiceForFunction over /v2/tapService over /v2/functions/.*
C1_LastRegisteredWins ==
    served # NoDispatch =>
        LET M == Matching(routes, served.path) IN
        /\ M = {} => served.invoked = <<>> /\ served.notFound
        /\ M # {} =>
              /\ Len(served.invoked) = 1
              /\ served.invoked[1].index = Newest(M)
              /\ served.invoked[1].handler = routes[Newest(M)].handler
              /\ ~served.notFound
              /\ \A i \in M \ {Newest(M)} :
                    \A k \in 1..Len(served.invoked) : served.invoked[k].index # i
        /\ routes = Serve =>
              FissionPrecedence(SplitFirst(served.path, "?")) =
                  (IF served.invoked = <<>> THEN "NotFound"
                   ELSE served.invoked[1].handler)

\* a request whose path matches two of the registered routes was dispatched
C1_Witness ==
    /\ served # NoDispatch
    /\ routes = Serve
    /\ Cardinality(Matching(routes, served.path)) >= 2
    /\ Len(served.invoked) = 1

----------------------------------------------------------------------------
\* Claims about the auto-creation policy and the tap

\* the positions of the calls of one kind in a log
Calls(log, op) == {i \in 1..Len(log) : log[i][1] = op}

\* the operations of Fission that go through createIfUndefined
Operations == {"HandleGetServiceForFunction", "HandleTapService", "HandleFunctionRun"}

\* the last exchange is an operation that reached createIfUndefined
Referenced(x) ==
    /\ x.op
    /\ x.handler \in Operations
    /\ ~(x.handler = "HandleTapService" /\ x.req.body = <<>>)

\* the position of the operation's own Platform.Get or Platform.Run
OwnCall(log) ==
    CHOOSE i \in Calls(log, "Platform.Get") \cup Calls(log, "Platform.Run") :
        \A j \in Calls(log, "Platform.Get") \cup Calls(log, "Platform.Run") : j <= i

Registrations(f) == {k \in 1..Len(defined) : defined[k].fn = f}

\* C2: with auto-creation enabled, an operation that finds its function f
\* unknown calls FnFactory(f) once and then Platform.Define(f, FnFactory(f))
\* once, both before its own Platform.Get / Platform.Run; an operation that
\* starts when f is defined calls neither; so while no two requests have
\* overlapped f is registered at most once, exactly once when it was unknown
C2_RegisterOnce ==
    /\ (CreateUndefinedFunctions /\ Referenced(last) /\ ~last.known) =>
          LET f == last.fnName
              fac == Calls(last.log, "FnFactory")
              def == Calls(last.log, "Platform.Define")
          IN
          /\ Cardinality(fac) = 1
          /\ Cardinality(def) = 1
          /\ \A i \in fac : last.log[i] = <<"FnFactory", f>>
          /\ \A i \in def : last.log[i] = <<"Platform.Define", f, FnFactory(f)>>
          /\ \A i \in fac, j \in def : i < j /\ j < OwnCall(last.log)
          /\ ~overlapped => Cardinality(Registrations(f)) = 1
    /\ (Referenced(last) /\ last.known) =>
          /\ Calls(last.log, "FnFactory") = {}
          /\ Calls(last.log, "Platform.Define") = {}
    /\ \A w \in Workers :
          (pc[w] # "idle" /\ cur[w].known) =>
              /\ pc[w] # "define"
              /\ Calls(cur[w].log, "FnFactory") = {}
              /\ Calls(cur[w].log, "Platform.Define") = {}
    /\ \A k \in 1..Len(defined) : defined[k].cfg = FnFactory(defined[k].fn)
    /\ ~overlapped =>
          \A k \in 1..Len(defined) : Cardinality(Registrations(defined[k].fn)) = 1

\* a function auto-created by an earlier request was used again by a later
\* operation, which ended without registering it again
C2_Witness ==
    /\ CreateUndefinedFunctions
    /\ ~overlapped
    /\ Referenced(last)
    /\ last.known
    /\ \E k \in 1..Len(defined) : defined[k].fn = last.fnName /\ defined[k].id < last.id

\* C3: with auto-creation disabled and a function unknown to the Platform,
\* GetServiceForFunction, TapService and Run return the function-not-found
\* error, call neither FnFactory nor Platform.Define, and leave the
\* Platform's functions as they were
C3_DisabledNoRegistration ==
    /\ [](~CreateUndefinedFunctions =>
            /\ defined = <<>>
            /\ \A w \in Workers : pc[w] # "define"
            /\ (Referenced(last) /\ last.fnName \notin DOMAIN functions) =>
                  /\ last.ret.err = ErrFunctionNotFound
                  /\ Calls(last.log, "FnFactory") = {}
                  /\ Calls(last.log, "Platform.Define") = {})
    /\ [][~CreateUndefinedFunctions => functions' = functions]_vars

\* with auto-creation disabled, a Run of an unknown function ended
C3_Witness ==
    /\ ~CreateUndefinedFunctions
    /\ Referenced(last)
    /\ last.handler = "HandleFunctionRun"
    /\ last.fnName \notin DOMAIN functions
    /\ last.ret.err = ErrFunctionNotFound

TaskIds(ts) == {t.id : t \in ts}

\* a tap that got as far as launching its deploy
TapAccepted(x) ==
    /\ x.handler = "HandleTapService"
    /\ Calls(x.log, "go") # {}

\* C4: TapService returns success without waiting for Platform.deploy: at the
\* return the goroutine exists and has not called deploy yet, the tap's caller
\* gets nil and the 200 response, and no step of the deploy (its start, its
\* return with or without an error) changes what the caller got
C4_TapDoesNotWait ==
    /\ [](TapAccepted(last) =>
            /\ last.ret = Ret("", <<>>, NilReport)
            /\ last.resp = Response(200, NoBody))
    /\ [][ /\ \A t \in tasks' :
                t.id \notin TaskIds(tasks) =>
                    /\ t.st = "launched"
                    /\ last'.id = t.id
                    /\ TapAccepted(last')
           /\ (TaskIds(tasks') \subseteq TaskIds(tasks) /\ tasks' # tasks) =>
                    last' = last ]_vars

\* a tap was answered 200 while its deploy had not been called
C4_Witness ==
    /\ TapAccepted(last)
    /\ last.resp.status = 200
    /\ \E t \in tasks : t.id = last.id /\ t.st = "launched"

\* C5: TapService("") returns the input error at once with no other effect:
\* no Platform.Get, FnFactory or Platform.Define call and no deploy launched,
\* with auto-creation enabled or not
C5_EmptyTap ==
    (last.handler = "HandleTapService" /\ ~last.req.bodyErr /\ last.req.body = <<>>) =>
        /\ last.op
        /\ last.ret.err = ErrNoURL
        /\ last.resp.status = 400
        /\ \A i \in 1..Len(last.log) : last.log[i][1] = "ReadAll"
        /\ last.id \notin TaskIds(tasks)
        /\ \A k \in 1..Len(defined) : defined[k].id # last.id

\* an empty tap was refused while auto-creation was enabled
C5_Witness ==
    /\ CreateUndefinedFunctions
    /\ last.handler = "HandleTapService"
    /\ ~last.req.bodyErr
    /\ last.req.body = <<>>
    /\ last.ret.err = ErrNoURL

----------------------------------------------------------------------------
\* Claims about the invocation pathway

\* the last exchange is a Run that called Platform.Run
RanOnPlatform(x) ==
    /\ x.handler = "HandleFunctionRun"
    /\ x.op
    /\ Calls(x.log, "Platform.Run") # {}

\* its Platform.Run call: <<"Platform.Run", fn, runtime, err, report>>
RunEntry(x) == x.log[CHOOSE i \in Calls(x.log, "Platform.Run") : TRUE]

MarkerHeader(x) == ValuesGet(x.req.header, "X-CustomFn")
RuntimeParam(x) == ValuesGet(x.req.query, "runtime")

\* the failure of the dispatcher for a function name and a payload, "" when
\* it has none: the resolver's error, the missing handler, the generator's error
DispatchFailure(f, b) ==
    IF GetFn(f).err # "" THEN GetFn(f).err
    ELSE IF GetFn(f).key \notin Handlers THEN ErrNoHandler
    ELSE Generator(GetFn(f).key, b).err

\* the marker header is set, Platform.Run succeeded and the resolved key has a
\* generator
CustomCase(x) ==
    /\ RanOnPlatform(x)
    /\ MarkerHeader(x) # <<>>
    /\ RunEntry(x)[4] = ""
    /\ GetFn(x.fnName).err = ""
    /\ GetFn(x.fnName).key \in Handlers

\* C6 as stated: in the custom case the returned report's response field is
\* the generator's result for the request body
C6_Original ==
    CustomCase(last) =>
        /\ last.ret.err = ""
        /\ ~last.ret.report.nil
        /\ last.ret.report.Response = Generator(GetFn(last.fnName).key, last.req.body).res

\* C6, amended: in the custom case, when the body is read and the generator
\* returns bytes, Run returns the Platform's report with the response field
\* replaced by the generator's bytes for the whole body
C6_CustomResponse ==
    ( /\ CustomCase(last)
      /\ ~last.req.bodyErr
      /\ Generator(GetFn(last.fnName).key, last.req.body).err = "" ) =>
        LET g == Generator(GetFn(last.fnName).key, last.req.body).res IN
        /\ last.ret.err = ""
        /\ last.ret.report = [RunEntry(last)[5] EXCEPT !.Response = g]
        /\ last.ret.report.Response # RunEntry(last)[5].Response
        /\ g = <<"generated", "k1">> \o last.req.body

\* a Run answered 200 with the generator's bytes in the report
C6_Witness ==
    /\ CustomCase(last)
    /\ last.resp.status = 200
    /\ last.ret.report.Response = <<"generated", "k1", "p1">>

\* the seconds value s, a parsed float, is exactly the duration d
ExactSeconds(d, s) ==
    ~s.sub /\ d.sec = s.sec /\ d.nsec = s.nsec /\ d.neg = (s.neg /\ (s.sec # 0 \/ s.nsec # 0))

\* the duration d is the seconds value s cut towards zero to a whole nanosecond
CutSeconds(d, s) ==
    d.sec = s.sec /\ d.nsec = s.nsec /\ d.neg = (s.neg /\ (s.sec # 0 \/ s.nsec # 0))

\* an invocation with a parsable runtime parameter and no marker header
PlainOverride(x) ==
    /\ x.handler = "HandleFunctionRun"
    /\ RuntimeParam(x) # <<>>
    /\ ~ParseFloat(RuntimeParam(x)).err
    /\ MarkerHeader(x) = <<>>

\* the name after the last "/" of the request path is n
TrailingName(path, n) ==
    /\ Len(path) > Len(n)
    /\ path[Len(path) - Len(n)] = "/"
    /\ SubSeq(path, Len(path) - Len(n) + 1, Len(path)) = n
    /\ \A k \in 1..Len(n) : n[k] # "/"

PassesThrough(x) ==
    /\ x.op
    /\ Cardinality(Calls(x.log, "Platform.Run")) = 1
    /\ TrailingName(x.req.path, RunEntry(x)[2])
    /\ ~RunEntry(x)[3].nil
    /\ x.ret.err = RunEntry(x)[4]
    /\ x.ret.report = RunEntry(x)[5]
    /\ \A i \in 1..Len(x.log) : x.log[i][1] \notin {"ReadAll", "GetFn", "generator"}

\* C7 as stated: Platform.Run is called once with the name and an override
\* of exactly r seconds, and its result is returned unchanged, the body
\* unread and the dispatcher not invoked
C7_Original ==
    PlainOverride(last) =>
        /\ PassesThrough(last)
        /\ ExactSeconds(RunEntry(last)[3].d, ParseFloat(RuntimeParam(last)))

\* C7, amended: the override is r seconds cut towards zero to a whole number
\* of nanoseconds; the rest as stated
C7_OverridePassedThrough ==
    PlainOverride(last) =>
        /\ PassesThrough(last)
        /\ CutSeconds(RunEntry(last)[3].d, ParseFloat(RuntimeParam(last)))

\* runtime=2.5 without the marker header: the Platform ran f1 for 2.5 s
C7_Witness ==
    /\ PlainOverride(last)
    /\ RuntimeParam(last) = <<"2", ".", "5">>
    /\ last.resp.status = 200
    /\ last.ret.report.Runtime = [neg |-> FALSE, sec |-> 2, nsec |-> 500000000]
    /\ last.ret.report.Response = <<"simulated">>

\* C8 as stated: without a runtime parameter, or with an empty one,
\* Platform.Run receives a nil override and the configured runtime is used
C8_NoOverrideIsNil ==
    (RanOnPlatform(last) /\ RuntimeParam(last) = <<>>) =>
        /\ RunEntry(last)[3].nil
        /\ RunEntry(last)[4] = "" => RunEntry(last)[5].Runtime = ConfiguredRuntime

\* C9: when the dispatcher fails during Run (the resolver fails, the key has
\* no handler, or the generator returns an error), Run returns that error and
\* no report, and HandleFunctionRun answers 400 with the error, not 200
C9_DispatcherFailure ==
    ( /\ RanOnPlatform(last)
      /\ MarkerHeader(last) # <<>>
      /\ RunEntry(last)[4] = ""
      /\ ~last.req.bodyErr
      /\ DispatchFailure(last.fnName, last.req.body) # "" ) =>
        /\ last.ret.err = DispatchFailure(last.fnName, last.req.body)
        /\ last.ret.report = NilReport
        /\ last.resp = Response(400, Text(DispatchFailure(last.fnName, last.req.body)))

\* the Platform ran the function, the resolved key had no handler, and the
\* request was answered 400
C9_Witness ==
    /\ RanOnPlatform(last)
    /\ RunEntry(last)[4] = ""
    /\ last.ret.err = ErrNoHandler
    /\ last.resp.status = 400

\* a request the handlers reject as malformed input
Malformed(x) ==
    \/ /\ x.handler = "HandleGetServiceForFunction"
       /\ ~x.req.bodyErr
       /\ Unmarshal(x.req.body).err
    \/ /\ x.handler = "HandleFunctionRun"
       /\ RuntimeParam(x) # <<>>
       /\ ParseFloat(RuntimeParam(x)).err

\* C10: a malformed request (a body that is not the JSON of an ObjectMeta for
\* /v2/getServiceForFunction, an unparsable runtime parameter for
\* /fission-function/) is answered 400 without any call of the Platform or
\* of the factory
C10_MalformedNoPlatform ==
    Malformed(last) =>
        /\ last.resp.status = 400
        /\ ~last.op
        /\ \A i \in 1..Len(last.log) : last.log[i][1] = "ReadAll"
        /\ last.id \notin TaskIds(tasks)
        /\ \A k \in 1..Len(defined) : defined[k].id # last.id

\* runtime=abc was answered 400 with auto-creation enabled
C10_Witness ==
    /\ Malformed(last)
    /\ last.handler = "HandleFunctionRun"
    /\ CreateUndefinedFunctions
    /\ last.resp.status = 400

----------------------------------------------------------------------------
\* Claims about the answers of the endpoints

\* the exchange is a /v2/getServiceForFunction request whose body was read
\* and is the JSON of an ObjectMeta
WellFormedLookup(x) ==
    /\ x.handler = "HandleGetServiceForFunction"
    /\ ~x.req.bodyErr
    /\ ~Unmarshal(x.req.body).err

\* C11: /v2/getServiceForFunction with a well-formed body naming n answers 200
\* with body n when n is known to the Platform once createIfUndefined is over,
\* and 404 when n is still unknown; the service name GetServiceForFunction
\* returns is the function name n
C11_LookupAnswer ==
    /\ [](WellFormedLookup(last) =>
            LET n == Unmarshal(last.req.body).Name IN
            /\ last.op
            /\ last.fnName = n
            /\ last.ret.err = "" =>
                  /\ last.ret.svc = n
                  /\ last.resp = Response(200, <<"bytes", n>>)
            /\ last.ret.err # "" => last.resp.status = 404)
    /\ [][(last' # last /\ WellFormedLookup(last')) =>
             LET n == Unmarshal(last'.req.body).Name IN
             /\ n \in DOMAIN functions' =>
                   last'.resp = Response(200, <<"bytes", n>>)
             /\ n \notin DOMAIN functions' => last'.resp.status = 404
             /\ CreateUndefinedFunctions => n \in DOMAIN functions']_vars

\* a lookup of a function that was unknown when the request came and was
\* created by the policy was answered 200 with the function's name
C11_Witness ==
    /\ WellFormedLookup(last)
    /\ ~last.known
    /\ CreateUndefinedFunctions
    /\ last.fnName = <<"f1">>
    /\ last.resp = Response(200, <<"bytes", <<"f1">> >>)

\* the route a dispatch invoked, 0 for the not-found answer
Selected(s) == IF s.invoked = <<>> THEN 0 ELSE s.invoked[1].index

\* the query suffixes put after a path
QuerySuffixes == PathPieces \cup { <<>>, <<"x", "=", "1">> }

\* C12: query strings never affect routing: the dispatch of a path p followed
\* by "?" and a suffix q selects the same handler, or the same not-found
\* answer, as the dispatch of p alone
C12_QueryIgnored ==
    served # NoDispatch =>
        LET x == served.path
            p == SplitFirst(x, "?")
        IN
        /\ (Selected(served) = 0) = served.notFound
        /\ Selected(served) = SelectRoute(routes, p)
        /\ \A q \in QuerySuffixes :
              SelectRoute(routes, p \o <<"?">> \o q) = Selected(served)

\* /v2/tapService?/fission-function/ was dispatched to the handler of
\* /v2/tapService, the query matching a newer route
C12_Witness ==
    /\ served # NoDispatch
    /\ routes = Serve
    /\ served.path = PatTapService.lit \o <<"?">> \o PatFissionFunction.lit
    /\ Len(served.invoked) = 1
    /\ served.invoked[1].handler = "HandleTapService"

----------------------------------------------------------------------------
\* Claims about concurrent requests

\* the registrations made by the request with this id
RegistrationsBy(id) == {k \in 1..Len(defined) : defined[k].id = id}

\* the worker's operation found its function unknown and called the factory
ObservedUnknown(w) ==
    /\ pc[w] # "idle"
    /\ Calls(cur[w].log, "FnFactory") # {}

\* C13: registration is not idempotent at this layer: every operation that
\* found f unknown calls FnFactory(f) and then Platform.Define(f, ...) whatever
\* the other operations did meanwhile, so two operations that both find f
\* unknown before either defines it call the factory twice and Define twice
C13_RegistrationRace ==
    /\ \A w \in Workers :
          ObservedUnknown(w) =>
              /\ cur[w].log[Len(cur[w].log)][1] \in {"FnFactory", "Platform.Define"}
              /\ Cardinality(Calls(cur[w].log, "FnFactory")) = 1
              /\ pc[w] = "define" => RegistrationsBy(cur[w].id) = {}
              /\ pc[w] = "call" =>
                    /\ Cardinality(RegistrationsBy(cur[w].id)) = 1
                    /\ \A k \in RegistrationsBy(cur[w].id) :
                          defined[k].fn = cur[w].fnName
                    /\ Cardinality(Calls(cur[w].log, "Platform.Define")) = 1
    /\ \A k \in 1..Len(defined) : Cardinality(RegistrationsBy(defined[k].id)) = 1
    /\ \A w \in Workers :
          pc[w] = "define" =>
              /\ ObservedUnknown(w)
              /\ \E i \in Calls(cur[w].log, "Platform.Get") :
                    cur[w].log[i] = <<"Platform.Get", cur[w].fnName, FALSE>>

\* two operations on f1 both found it unknown, and both called the factory and
\* Platform.Define: f1 was registered twice
C13_Witness ==
    /\ CreateUndefinedFunctions
    /\ overlapped
    /\ Len(defined) = 2
    /\ defined[1].fn = <<"f1">>
    /\ defined[2].fn = <<"f1">>
    /\ defined[1].id # defined[2].id
    /\ \A w \in Workers : pc[w] = "idle"
    /\ Cardinality(Calls(last.log, "FnFactory")) = 1
    /\ Cardinality(Calls(last.log, "Platform.Define")) = 1

\* the step ends a TapService call
TapReturns ==
    /\ last' # last
    /\ last'.handler = "HandleTapService"
    /\ last'.op

\* C14: a TapService call that returns nil launches exactly one goroutine
\* calling Platform.deploy for the function it resolved, one that returns an
\* error launches none; taps are neither deduplicated nor serialized: every
\* successful tap has its own deploy, whatever deploys are launched or running
C14_OneDeployPerTap ==
    /\ [](\A t, u \in tasks : t.id = u.id => t = u)
    /\ [][(TapReturns /\ last'.ret.err = "") =>
             /\ last'.id \notin TaskIds(tasks)
             /\ tasks' = tasks \cup
                   {[id |-> last'.id, fn |-> svc2fn(last'.req.body),
                     st |-> "launched"]}]_vars
    /\ [][(TapReturns /\ last'.ret.err # "") => tasks' = tasks]_vars
    /\ [][(last' # last /\ ~TapReturns) => tasks' = tasks]_vars
    /\ [][\A t \in tasks :
             /\ t.st = "launched" =>
                   (t \in tasks' \/ [t EXCEPT !.st = "running"] \in tasks')
             /\ t.st = "running" => (t \in tasks' \/ tasks' = tasks \ {t})]_vars

\* two taps of f1 succeeded and their two deploys are in progress together
C14_Witness ==
    /\ \E t, u \in tasks :
          /\ t.id # u.id
          /\ t.fn = <<"f1">>
          /\ u.fn = <<"f1">>
          /\ t.st = "running"
          /\ u.st = "running"
    /\ TapAccepted(last)

----------------------------------------------------------------------------
\* Claims about the errors of the endpoints

\* the status codes a handler gives the malformed requests of the model
MalformedStatuses(h) ==
    { EnterHandler(h, r).resp.status :
        r \in {q \in Requests : Malformed([handler |-> h, req |-> q])} }

\* the exchange failed because an operation of the Platform failed: the
\* Platform.Run of Run, the Platform.Get of GetServiceForFunction and TapService
BackendFailure(x) ==
    \/ RanOnPlatform(x) /\ RunEntry(x)[4] # ""
    \/ /\ x.handler \in {"HandleGetServiceForFunction", "HandleTapService"}
       /\ x.op
       /\ x.ret.err = ErrFunctionNotFound

\* C15, as stated: on every endpoint a request that fails because a Platform
\* operation failed gets a status code that the endpoint gives no malformed
\* request
C15_Original ==
    BackendFailure(last) =>
        last.resp.status \notin MalformedStatuses(last.handler)

\* C15, amended: malformed input is answered 400 on every endpoint; a failed
\* Platform lookup is answered 404 by /v2/getServiceForFunction, which differs,
\* but a failed Platform.Run is answered 400 by /fission-function/, the status
\* an unparsable runtime parameter gets, and only the failure to serialise the
\* report is answered 500
C15_StatusCodes ==
    /\ Malformed(last) => last.resp.status = 400
    /\ MalformedStatuses("HandleGetServiceForFunction") = {400}
    /\ MalformedStatuses("HandleFunctionRun") = {400}
    /\ BackendFailure(last) =>
          last.resp.status =
              (IF last.handler = "HandleGetServiceForFunction" THEN 404 ELSE 400)
    /\ (last.handler = "HandleFunctionRun" /\ last.resp.status = 500) =>
          last.ret.err = ""

\* Platform.Run failed for a defined function and /fission-function/ answered
\* 400, as it does for runtime=abc
C15_Witness ==
    /\ RanOnPlatform(last)
    /\ RunEntry(last)[4] = ErrPlatform
    /\ last.resp.status = 400
    /\ 400 \in MalformedStatuses("HandleFunctionRun")

\* the function is still unknown when the operation looks it up
StillUnknown(x) ==
    /\ x.handler \in {"HandleGetServiceForFunction", "HandleTapService"}
    /\ x.op
    /\ x.ret.err = ErrFunctionNotFound

\* C16: a function still unknown after createIfUndefined is answered 404 by
\* /v2/getServiceForFunction and 400 by /v2/tapService, and in both cases the
\* body of the response is the message of the function-not-found error
C16_NotFoundMessage ==
    StillUnknown(last) =>
        /\ last.resp.status =
              (IF last.handler = "HandleGetServiceForFunction" THEN 404 ELSE 400)
        /\ last.resp.body = Text(ErrFunctionNotFound)

----------------------------------------------------------------------------
\* Claims about the custom-response dispatcher

\* C17: ExecFn(name, payload), for every resolver and registry: when GetFn(name)
\* fails its error is returned and no generator is invoked; otherwise when the
\* resolved key is not in Handlers the handler-not-found error is returned and
\* no generator is invoked; otherwise the generator registered under that key,
\* and no other, is invoked once with the payload and its bytes and error are
\* returned as they are; the registry is left as it was
C17_ExecFn ==
    exec.called =>
        LET c == exec.before
            r == c.GetFn[exec.fnName]
            gens == Calls(exec.out.log, "generator")
        IN
        /\ r.err # "" =>
              /\ exec.out.err = r.err
              /\ exec.out.res = <<>>
              /\ gens = {}
        /\ (r.err = "" /\ r.key \notin DOMAIN c.Handlers) =>
              /\ exec.out.err = ErrNoHandler
              /\ exec.out.res = <<>>
              /\ gens = {}
              /\ \A g \in CustomFns, b \in ExecPayloads :
                    CallCustomFn(g, b).err # ErrNoHandler
        /\ (r.err = "" /\ r.key \in DOMAIN c.Handlers) =>
              /\ Cardinality(gens) = 1
              /\ \A i \in gens :
                    exec.out.log[i] =
                        <<"generator", r.key, exec.b, c.Handlers[r.key]>>
              /\ exec.out.err = CallCustomFn(c.Handlers[r.key], exec.b).err
              /\ exec.out.res = CallCustomFn(c.Handlers[r.key], exec.b).res
        /\ exec.c = c
        /\ exec.out.Handlers = c.Handlers

\* with two generators registered, ExecFn invoked the one under the resolved
\* key, which returned bytes and an error, and returned both
C17_Witness ==
    /\ exec.called
    /\ DOMAIN exec.before.Handlers = ExecKeys
    /\ exec.before.Handlers["k0"] # exec.before.Handlers["k1"]
    /\ exec.before.GetFn[exec.fnName] = [err |-> "", key |-> "k1"]
    /\ exec.before.Handlers["k1"] = "partial"
    /\ exec.out.err = "generator stopped"
    /\ exec.out.res = <<"part">>

----------------------------------------------------------------------------
\* Claims about the function identity

\* the exchange is a tap of the service GetServiceForFunction returns for the
\* known function f
RoundTripTap(x, f) ==
    /\ x.handler = "HandleTapService"
    /\ ~x.req.bodyErr
    /\ f \in DOMAIN functions
    /\ x.known \/ x.fnName # f
    /\ GetServiceForFunctionRet(PlatformGet(functions, f)).err = ""
    /\ x.req.body = GetServiceForFunctionRet(PlatformGet(functions, f)).svc

\* C18: for a function f known to the Platform, TapService given the service
\* GetServiceForFunction(f) returns resolves the function f again and launches
\* the deploy of f
C18_RoundTrip ==
    \A f \in DOMAIN functions :
        RoundTripTap(last, f) =>
            /\ last.fnName = f
            /\ last.ret.err = ""
            /\ \E i \in Calls(last.log, "go") : last.log[i] = <<"go", f>>

----------------------------------------------------------------------------
\* Claims about the order of the steps of Run

\* the positions in a log of the reading of the body and of the dispatcher
CustomSteps(log) ==
    Calls(log, "ReadAll") \cup Calls(log, "GetFn") \cup Calls(log, "generator")

----------------------------------------------------------------------------
\* Claims about the background deploy

Launched(id) == \E t \in tasks : t.id = id /\ t.st = "launched"
Deploying(id) == \E t \in tasks : t.id = id /\ t.st = "running"

\* C20: every TapService call that returned nil is eventually followed by the
\* Platform.deploy call of its goroutine, whether or not requests are still
\* being served; no step of this layer removes a launched goroutine before it
\* has called deploy
C20_DeployEventually ==
    /\ \A id \in 1..MaxRequests : Launched(id) ~> Deploying(id)
    /\ [][\A t \in tasks :
             t.st = "launched" =>
                 \/ t \in tasks'
                 \/ [t EXCEPT !.st = "running"] \in tasks']_vars
    /\ [][(TapReturns /\ last'.ret.err = "") =>
             \E t \in tasks' : t.id = last'.id /\ t.st = "launched"]_vars

\* the deploy of a tap is called when no request is being served any more
C20_Witness ==
    /\ \A w \in Workers : pc[w] = "idle"
    /\ TapAccepted(last)
    /\ Deploying(last.id)
    /\ nreq = MaxRequests

====
